---------------------------- MODULE Spec2Model ----------------------------
(***************************************************************************)
(* A model of the PR-bubble promotion backend (app/services/pr_service.py, *)
(* app/api/pr.py, app/schemas/pr_bubble.py, app/models/pr_bubble.py,       *)
(* app/core/database.py).                                                  *)
(*                                                                         *)
(* The committed table pr_bubbles is the function store: id -> row.  Text  *)
(* values are sequences of characters (one-character strings), so that     *)
(* length limits, slicing, upper-casing and URL splitting are computed the *)
(* way the code computes them.  Timestamps are integers read from the      *)
(* clock now.  An Optional value is <<>> (None) or <<v>>.                   *)
(***************************************************************************)
EXTENDS Integers, Sequences, FiniteSets, TLC

VARIABLES
    store,    \* committed rows of pr_bubbles: [id -> row], DOMAIN = existing ids
    now,      \* the clock (datetime.now(timezone.utc) / func.now())
    nextId,   \* the next fresh primary key (uuid.uuid4 never repeats)
    resp,     \* the response of the last request served without overlap
    sess      \* the request transactions in progress: [Sessions -> session]

vars == <<store, now, nextId, resp, sess>>

(***************************************************************************)
(* Bounds of the model.                                                    *)
(***************************************************************************)
MaxIds == 2        \* promotions ever created in one behaviour
MaxOrderIds == 4   \* promotions ever created in the ordering specification
MaxTime == 1       \* the clock runs from 0 to MaxTime
MaxCount == 2      \* views and clicks counted in one behaviour

Sessions == {1, 2} \* overlapping request transactions

(***************************************************************************)
(* Program constants.                                                      *)
(***************************************************************************)
TITLE_MAX == 60
DESCRIPTION_MAX == 200
URL_MAX == 500
TAG_TEXT_MAX == 50
TAG_COLOR_LEN == 7
UTM_MAX == 100
DUP_KEEP == 35
DUP_TITLE_MAX == 40

None == <<>>
Some(v) == <<v>>

TagTypes == {"gizmart", "custom"}
PRStatuses == {"draft", "active", "inactive"}

\* "(コピー)": an opening parenthesis, three katakana, a closing parenthesis
COPY_SUFFIX == <<"(", "KO", "PI", "CHOON", ")">>

DEFAULT_TAG_TEXT == <<"G", "I", "Z", "M", "A", "R", "T">>
DEFAULT_TAG_COLOR == <<"#", "F", "F", "1", "B", "E", "8">>

(***************************************************************************)
(* Text helpers: Python's str operations on sequences of characters.       *)
(***************************************************************************)
\* s[:n]
Prefix(s, n) == SubSeq(s, 1, IF Len(s) < n THEN Len(s) ELSE n)

\* s[n:] for a 0-based n
Suffix(s, n) == SubSeq(s, n + 1, Len(s))

\* s.find(c): the 1-based index of the first c in s, 0 when absent
Find(s, c) ==
    IF \E i \in 1..Len(s) : s[i] = c
    THEN CHOOSE i \in 1..Len(s) : s[i] = c /\ \A j \in 1..(i - 1) : s[j] # c
    ELSE 0

\* s.rfind(c): the 1-based index of the last c in s, 0 when absent
RFind(s, c) ==
    IF \E i \in 1..Len(s) : s[i] = c
    THEN CHOOSE i \in 1..Len(s) : s[i] = c /\ \A j \in (i + 1)..Len(s) : s[j] # c
    ELSE 0

LowerLetters == {"a", "b", "c", "d", "e", "f", "g", "h", "i", "j", "k", "l", "m",
                 "n", "o", "p", "q", "r", "s", "t", "u", "v", "w", "x", "y", "z"}
UpperLetters == {"A", "B", "C", "D", "E", "F", "G", "H", "I", "J", "K", "L", "M",
                 "N", "O", "P", "Q", "R", "S", "T", "U", "V", "W", "X", "Y", "Z"}
Digits == {"0", "1", "2", "3", "4", "5", "6", "7", "8", "9"}

UpperOf ==
    [c \in LowerLetters |->
        CASE c = "a" -> "A" [] c = "b" -> "B" [] c = "c" -> "C" [] c = "d" -> "D"
          [] c = "e" -> "E" [] c = "f" -> "F" [] c = "g" -> "G" [] c = "h" -> "H"
          [] c = "i" -> "I" [] c = "j" -> "J" [] c = "k" -> "K" [] c = "l" -> "L"
          [] c = "m" -> "M" [] c = "n" -> "N" [] c = "o" -> "O" [] c = "p" -> "P"
          [] c = "q" -> "Q" [] c = "r" -> "R" [] c = "s" -> "S" [] c = "t" -> "T"
          [] c = "u" -> "U" [] c = "v" -> "V" [] c = "w" -> "W" [] c = "x" -> "X"
          [] c = "y" -> "Y" [] c = "z" -> "Z"]

LowerOf ==
    [c \in UpperLetters |-> CHOOSE l \in LowerLetters : UpperOf[l] = c]

UpperChar(c) == IF c \in LowerLetters THEN UpperOf[c] ELSE c
LowerChar(c) == IF c \in UpperLetters THEN LowerOf[c] ELSE c

\* str.upper() / str.lower()
Upper(s) == [i \in 1..Len(s) |-> UpperChar(s[i])]
Lower(s) == [i \in 1..Len(s) |-> LowerChar(s[i])]

(***************************************************************************)
(* int(s, 16) of Python, as far as it decides whether the call raises:     *)
(* surrounding whitespace is stripped, one sign is allowed, then an        *)
(* optional 0x / 0X prefix (one underscore may follow it), then hex digits *)
(* with single underscores between digits.                                 *)
(***************************************************************************)
Whitespace == {" ", "TAB", "LF"}
HexDigits == Digits \cup {"a", "b", "c", "d", "e", "f", "A", "B", "C", "D", "E", "F"}

\* str.strip()
Strip(s) ==
    IF \A i \in 1..Len(s) : s[i] \in Whitespace
    THEN <<>>
    ELSE LET first == CHOOSE i \in 1..Len(s) :
                          s[i] \notin Whitespace /\ \A j \in 1..(i - 1) : s[j] \in Whitespace
             last == CHOOSE i \in 1..Len(s) :
                         s[i] \notin Whitespace /\ \A j \in (i + 1)..Len(s) : s[j] \in Whitespace
         IN SubSeq(s, first, last)

DigitsWithUnderscores(v) ==
    /\ Len(v) >= 1
    /\ v[1] # "_"
    /\ v[Len(v)] # "_"
    /\ \A i \in 1..Len(v) : v[i] \in HexDigits \cup {"_"}
    /\ \A i \in 1..(Len(v) - 1) : ~(v[i] = "_" /\ v[i + 1] = "_")

IntBase16Parses(s) ==
    LET t == Strip(s)
        u == IF Len(t) > 0 /\ t[1] \in {"+", "-"} THEN Tail(t) ELSE t
        hasPrefix == Len(u) >= 2 /\ u[1] = "0" /\ u[2] \in {"x", "X"}
        v == IF hasPrefix
             THEN (IF Len(u) >= 3 /\ u[3] = "_" THEN Suffix(u, 3) ELSE Suffix(u, 2))
             ELSE u
    IN DigitsWithUnderscores(v)

\* validate_hex_color: TRUE when the validator returns (it returns v.upper())
HexColorAccepted(v) ==
    /\ Len(v) > 0 /\ v[1] = "#"
    /\ Len(v) = TAG_COLOR_LEN
    /\ IntBase16Parses(Suffix(v, 1))

(***************************************************************************)
(* urllib.parse.urlsplit, for URLs without whitespace, control characters  *)
(* and brackets: the scheme is the text before the first ':' when it       *)
(* starts with a letter and holds only scheme characters, lower-cased;     *)
(* the netloc is what follows a leading '//' up to the first of '/?#'.     *)
(***************************************************************************)
SchemeChars == LowerLetters \cup UpperLetters \cup Digits \cup {"+", "-", "."}

\* _splitnetloc(url, 2): the index of the last character of the netloc
NetlocEnd(url) ==
    LET stops == {i \in 3..Len(url) : url[i] \in {"/", "?", "#"}}
    IN IF stops = {} THEN Len(url)
       ELSE (CHOOSE i \in stops : \A j \in stops : i <= j) - 1

urlsplit(url) ==
    LET i == Find(url, ":")
        hasScheme == /\ i > 1
                     /\ url[1] \in LowerLetters \cup UpperLetters
                     /\ \A k \in 1..(i - 1) : url[k] \in SchemeChars
        scheme == IF hasScheme THEN Lower(Prefix(url, i - 1)) ELSE <<>>
        rest == IF hasScheme THEN Suffix(url, i) ELSE url
        hasNetloc == Len(rest) >= 2 /\ rest[1] = "/" /\ rest[2] = "/"
        netloc == IF hasNetloc THEN SubSeq(rest, 3, NetlocEnd(rest)) ELSE <<>>
    IN [scheme |-> scheme, netloc |-> netloc]

HTTP == <<"h", "t", "t", "p">>
HTTPS == <<"h", "t", "t", "p", "s">>

is_valid_redirect_url(url) ==
    LET parsed == urlsplit(url)
    IN /\ parsed.scheme \in {HTTP, HTTPS}
       /\ parsed.netloc # <<>>

(***************************************************************************)
(* Request bodies.  A body is a record holding the fields the client sent; *)
(* a field the client left out is not in its DOMAIN.                       *)
(***************************************************************************)
Has(body, f) == f \in DOMAIN body

\* validate_end_date(v, info): TRUE when the validator returns
validate_end_date(v, data) ==
    ~(Has(data, "start_date") /\ v <= data.start_date)

\* PRBubbleCreate(**body): TRUE when pydantic accepts the body
CreateAccepted(body) ==
    /\ {"title", "description", "image_url", "link_url", "start_date", "end_date"}
           \subseteq DOMAIN body
    /\ Len(body.title) <= TITLE_MAX
    /\ Len(body.description) <= DESCRIPTION_MAX
    /\ Len(body.image_url) <= URL_MAX
    /\ Len(body.link_url) <= URL_MAX
    /\ Has(body, "tag_type") => body.tag_type \in TagTypes
    /\ Has(body, "tag_text") => Len(body.tag_text) <= TAG_TEXT_MAX
    /\ Has(body, "tag_color") =>
           Len(body.tag_color) <= TAG_COLOR_LEN /\ HexColorAccepted(body.tag_color)
    /\ validate_end_date(body.end_date, body)
    /\ Has(body, "utm_campaign") =>
           (body.utm_campaign = None \/ Len(body.utm_campaign[1]) <= UTM_MAX)
    /\ Has(body, "status") => body.status \in PRStatuses

\* data.model_dump() of an accepted PRBubbleCreate: defaults filled in, the
\* colour as the validator returned it
CreateDump(body) ==
    [title        |-> body.title,
     description  |-> body.description,
     image_url    |-> body.image_url,
     link_url     |-> body.link_url,
     tag_type     |-> IF Has(body, "tag_type") THEN body.tag_type ELSE "gizmart",
     tag_text     |-> IF Has(body, "tag_text") THEN body.tag_text ELSE DEFAULT_TAG_TEXT,
     tag_color    |-> IF Has(body, "tag_color") THEN Upper(body.tag_color)
                      ELSE DEFAULT_TAG_COLOR,
     start_date   |-> body.start_date,
     end_date     |-> body.end_date,
     priority     |-> IF Has(body, "priority") THEN body.priority ELSE None,
     utm_campaign |-> IF Has(body, "utm_campaign") THEN body.utm_campaign ELSE None,
     status       |-> IF Has(body, "status") THEN body.status ELSE "draft"]

(***************************************************************************)
(* Rows of pr_bubbles (app/models/pr_bubble.py).                           *)
(***************************************************************************)
\* INSERT of PRBubble(**fields) at server time t: the column defaults and the
\* server defaults of created_at / updated_at
InsertRow(fields, t) ==
    [title        |-> fields.title,
     description  |-> fields.description,
     image_url    |-> fields.image_url,
     link_url     |-> fields.link_url,
     tag_type     |-> fields.tag_type,
     tag_text     |-> fields.tag_text,
     tag_color    |-> fields.tag_color,
     start_date   |-> fields.start_date,
     end_date     |-> fields.end_date,
     priority     |-> fields.priority,
     status       |-> fields.status,
     utm_campaign |-> fields.utm_campaign,
     view_count   |-> IF Has(fields, "view_count") THEN fields.view_count ELSE 0,
     click_count  |-> IF Has(fields, "click_count") THEN fields.click_count ELSE 0,
     created_at   |-> t,
     updated_at   |-> t]

\* UPDATE emitted by a flush at server time t: updated_at has onupdate=func.now()
OnUpdate(row, t) == [row EXCEPT !.updated_at = t]

TrackTypes == {"view", "click"}

\* a track_pr that counts every accepted tag as a view
TrackRowCountsView(row, track_type) ==
    IF track_type \in {"view", "click"} THEN [row EXCEPT !.view_count = @ + 1]
    ELSE row

\* track_pr, lines 130-135: the in-memory change of the loaded object
TrackRow(row, track_type) ==
    IF track_type = "view" THEN [row EXCEPT !.view_count = @ + 1]
    ELSE IF track_type = "click" THEN [row EXCEPT !.click_count = @ + 1]
    ELSE row

\* track_pr's return value for a loaded object
TrackOk(track_type) == track_type \in {"view", "click"}

\* TrackRequest: the pattern ^(view|click)$ on the request body
TrackRequestAccepted(track_type) == track_type \in TrackTypes

Without(f, id) == [i \in DOMAIN f \ {id} |-> f[i]]

IdleSession == [pc |-> "idle"]

(***************************************************************************)
(* Requests served without overlap: the handler and the commit of get_db   *)
(* in one step.                                                            *)
(***************************************************************************)
\* POST /api/pr
Create(body) ==
    /\ IF CreateAccepted(body)
       THEN /\ store' = store @@ (nextId :> InsertRow(CreateDump(body), now))
            /\ nextId' = nextId + 1
            /\ resp' = [op |-> "create", kind |-> "Created", id |-> nextId]
       ELSE /\ resp' = [op |-> "create", kind |-> "ValidationError", id |-> 0]
            /\ UNCHANGED <<store, nextId>>
    /\ UNCHANGED <<now, sess>>

\* POST /api/pr/{pr_id}/track
Track(id, track_type) ==
    /\ IF ~TrackRequestAccepted(track_type)
       THEN /\ resp' = [op |-> "track", kind |-> "ValidationError", id |-> id,
                        type |-> track_type]
            /\ UNCHANGED store
       ELSE IF id \notin DOMAIN store \/ ~TrackOk(track_type)
       THEN /\ resp' = [op |-> "track", kind |-> "NotFound", id |-> id,
                        type |-> track_type]
            /\ UNCHANGED store
       ELSE /\ store' = [store EXCEPT ![id] = OnUpdate(TrackRow(@, track_type), now)]
            /\ resp' = [op |-> "track", kind |-> "ok", id |-> id, type |-> track_type]
    /\ UNCHANGED <<now, nextId, sess>>

\* DELETE /api/pr/{pr_id}
Delete(id) ==
    /\ IF id \in DOMAIN store
       THEN /\ store' = Without(store, id)
            /\ resp' = [op |-> "delete", kind |-> "NoContent", id |-> id]
       ELSE /\ resp' = [op |-> "delete", kind |-> "NotFound", id |-> id]
            /\ UNCHANGED store
    /\ UNCHANGED <<now, nextId, sess>>

\* a title made by appending the suffix with no truncation at all
DuplicateTitleNoCut(title) ==
    title \o COPY_SUFFIX

\* a title made by appending the suffix first and truncating the whole afterwards
DuplicateTitleAppendFirst(title) ==
    Prefix(title \o COPY_SUFFIX, DUP_TITLE_MAX)

\* duplicate_pr, lines 79-81: the title of the copy
DuplicateTitle(title) ==
    LET new_title == IF Len(title) > DUP_KEEP
                     THEN Prefix(title, DUP_KEEP) \o COPY_SUFFIX
                     ELSE title \o COPY_SUFFIX
    IN IF Len(new_title) > DUP_TITLE_MAX THEN Prefix(new_title, DUP_TITLE_MAX)
       ELSE new_title

\* a duplicate_pr that carries the source's status and counters over
DuplicateFieldsKeepsState(original) ==
    [title        |-> DuplicateTitle(original.title),
     description  |-> original.description,
     image_url    |-> original.image_url,
     link_url     |-> original.link_url,
     tag_type     |-> original.tag_type,
     tag_text     |-> original.tag_text,
     tag_color    |-> original.tag_color,
     start_date   |-> original.start_date,
     end_date     |-> original.end_date,
     priority     |-> original.priority,
     status       |-> original.status,
     utm_campaign |-> original.utm_campaign,
     view_count   |-> original.view_count,
     click_count  |-> original.click_count]

\* duplicate_pr, lines 83-98: the constructor arguments of the copy
DuplicateFields(original) ==
    [title        |-> DuplicateTitle(original.title),
     description  |-> original.description,
     image_url    |-> original.image_url,
     link_url     |-> original.link_url,
     tag_type     |-> original.tag_type,
     tag_text     |-> original.tag_text,
     tag_color    |-> original.tag_color,
     start_date   |-> original.start_date,
     end_date     |-> original.end_date,
     priority     |-> original.priority,
     status       |-> "draft",
     utm_campaign |-> original.utm_campaign,
     view_count   |-> 0,
     click_count  |-> 0]

\* POST /api/pr/{pr_id}/duplicate
Duplicate(id) ==
    /\ IF id \in DOMAIN store
       THEN /\ store' = store @@ (nextId :> InsertRow(DuplicateFields(store[id]), now))
            /\ nextId' = nextId + 1
            /\ resp' = [op |-> "duplicate", kind |-> "Created", id |-> nextId]
       ELSE /\ resp' = [op |-> "duplicate", kind |-> "NotFound", id |-> id]
            /\ UNCHANGED <<store, nextId>>
    /\ UNCHANGED <<now, sess>>

(***************************************************************************)
(* PR update.  Every field of PRBubbleUpdate is Optional: a field the      *)
(* client sent holds None or Some(value).                                  *)
(***************************************************************************)
NullableColumns == {"priority", "utm_campaign"}

UpdateFieldMax ==
    [title |-> TITLE_MAX, description |-> DESCRIPTION_MAX, image_url |-> URL_MAX,
     link_url |-> URL_MAX, tag_text |-> TAG_TEXT_MAX, tag_color |-> TAG_COLOR_LEN,
     utm_campaign |-> UTM_MAX]

UpdateFields ==
    {"title", "description", "image_url", "link_url", "tag_type", "tag_text",
     "tag_color", "start_date", "end_date", "priority", "status", "utm_campaign"}

\* PRBubbleUpdate(**body): TRUE when pydantic accepts the body; a key that is
\* no field of the model is ignored (the model sets no extra="forbid")
UpdateAccepted(body) ==
    /\ \A f \in DOMAIN body \cap DOMAIN UpdateFieldMax :
           body[f] # None => Len(body[f][1]) <= UpdateFieldMax[f]
    /\ Has(body, "tag_color") => (body.tag_color # None => HexColorAccepted(body.tag_color[1]))
    /\ Has(body, "tag_type") => (body.tag_type # None => body.tag_type[1] \in TagTypes)
    /\ Has(body, "status") => (body.status # None => body.status[1] \in PRStatuses)

\* data.model_dump(exclude_unset=True): the fields sent, the colour as the
\* validator returned it
UpdateDump(body) ==
    [f \in DOMAIN body \cap UpdateFields |->
        IF f = "tag_color" /\ body[f] # None THEN Some(Upper(body[f][1])) ELSE body[f]]

\* an update_pr without line 59, which leaves updated_at to the column's
\* onupdate: it changes only when the UPDATE writes some other column
ApplyUpdateOnChange(row, update_data, t) ==
    LET written == [f \in DOMAIN row |->
                       IF f \in DOMAIN update_data
                       THEN (IF f \in NullableColumns \/ update_data[f] = None
                             THEN update_data[f] ELSE update_data[f][1])
                       ELSE row[f]]
    IN IF written = row THEN row ELSE [written EXCEPT !.updated_at = t]

\* update_pr, lines 56-60: setattr for every field sent, then updated_at
ApplyUpdate(row, update_data, t) ==
    [f \in DOMAIN row |->
        IF f = "updated_at" THEN t
        ELSE IF f \in DOMAIN update_data
        THEN (IF f \in NullableColumns \/ update_data[f] = None
              THEN update_data[f] ELSE update_data[f][1])
        ELSE row[f]]

\* the flush of update_pr violates a NOT NULL constraint
UpdateNullViolation(update_data) ==
    \E f \in DOMAIN update_data \ NullableColumns : update_data[f] = None

\* PUT /api/pr/{pr_id}
Update(id, body) ==
    /\ IF ~UpdateAccepted(body)
       THEN /\ resp' = [op |-> "update", kind |-> "ValidationError", id |-> id]
            /\ UNCHANGED store
       ELSE IF id \notin DOMAIN store
       THEN /\ resp' = [op |-> "update", kind |-> "NotFound", id |-> id]
            /\ UNCHANGED store
       ELSE IF UpdateNullViolation(UpdateDump(body))
       THEN /\ resp' = [op |-> "update", kind |-> "ServerError", id |-> id]
            /\ UNCHANGED store
       ELSE /\ store' = [store EXCEPT ![id] = ApplyUpdate(@, UpdateDump(body), now)]
            /\ resp' = [op |-> "update", kind |-> "ok", id |-> id]
    /\ UNCHANGED <<now, nextId, sess>>

(***************************************************************************)
(* Redirect.                                                               *)
(***************************************************************************)
\* redirect_pr, line 240: pr.utm_campaign or f"pr_{pr_id}"
RedirectCampaign(row, id) ==
    IF row.utm_campaign # None /\ row.utm_campaign[1] # <<>>
    THEN row.utm_campaign[1]
    ELSE <<"p", "r", "_", ToString(id)>>

\* GET /api/pr/{pr_id}/redirect
Redirect(id) ==
    /\ IF id \notin DOMAIN store
       THEN /\ resp' = [op |-> "redirect", kind |-> "NotFound", id |-> id]
            /\ UNCHANGED store
       ELSE IF ~is_valid_redirect_url(store[id].link_url)
       THEN /\ resp' = [op |-> "redirect", kind |-> "InvalidRedirectTarget", id |-> id]
            /\ UNCHANGED store
       ELSE /\ store' = [store EXCEPT ![id] = OnUpdate(TrackRow(@, "click"), now)]
            /\ resp' = [op |-> "redirect", kind |-> "Redirect302", id |-> id,
                        base_url |-> store[id].link_url,
                        utm_campaign |-> RedirectCampaign(store[id], id)]
    /\ UNCHANGED <<now, nextId, sess>>

(***************************************************************************)
(* Active list.                                                            *)
(***************************************************************************)
ACTIVE_LIMIT_MIN == 1
ACTIVE_LIMIT_MAX == 50

\* a WHERE clause that leaves out the instant the window opens
ActiveWhereOpenStart(row, t) ==
    /\ row.status = "active"
    /\ row.start_date < t
    /\ row.end_date >= t

\* get_active_prs, lines 110-112: the WHERE clauses at the instant t
ActiveWhere(row, t) ==
    /\ row.status = "active"
    /\ row.start_date <= t
    /\ row.end_date >= t

\* an ORDER BY priority ASC without NULLS LAST, as PostgreSQL's default is not:
\* here a null priority sorts first
OrderBeforeNullsFirst(a, b) ==
    IF a.priority = None /\ b.priority # None THEN TRUE
    ELSE IF a.priority # None /\ b.priority = None THEN FALSE
    ELSE IF a.priority # None /\ a.priority[1] # b.priority[1]
    THEN a.priority[1] < b.priority[1]
    ELSE a.created_at > b.created_at

\* get_active_prs, lines 113-116: row a sorts strictly before row b under
\* ORDER BY priority ASC NULLS LAST, created_at DESC
OrderBefore(a, b) ==
    IF a.priority = None /\ b.priority # None THEN FALSE
    ELSE IF a.priority # None /\ b.priority = None THEN TRUE
    ELSE IF a.priority # None /\ a.priority[1] # b.priority[1]
    THEN a.priority[1] < b.priority[1]
    ELSE a.created_at > b.created_at

\* every order in which the database may return the rows of ids: rows that
\* compare equal under ORDER BY come in any order
RECURSIVE Orderings(_, _)
Orderings(rows, ids) ==
    IF ids = {} THEN {<<>>}
    ELSE UNION {{<<x>> \o rest : rest \in Orderings(rows, ids \ {x})} :
                   x \in {y \in ids : \A z \in ids : ~OrderBefore(rows[z], rows[y])}}

\* get_active_prs, lines 119-120: "if limit:" then LIMIT
ApplyLimit(items, limit) ==
    IF limit # None /\ limit[1] # 0 THEN Prefix(items, limit[1]) ELSE items

\* the Query(None, ge=1, le=50) of the handler
ActiveLimitAccepted(limit) ==
    limit # None => (limit[1] >= ACTIVE_LIMIT_MIN /\ limit[1] <= ACTIVE_LIMIT_MAX)

\* GET /api/pr/active
ActiveList(limit) ==
    /\ IF ~ActiveLimitAccepted(limit)
       THEN resp' = [op |-> "active", kind |-> "ValidationError", limit |-> limit]
       ELSE \E items \in Orderings(store, {id \in DOMAIN store : ActiveWhere(store[id], now)}) :
                resp' = [op |-> "active", kind |-> "ok", limit |-> limit, at |-> now,
                         items |-> ApplyLimit(items, limit)]
    /\ UNCHANGED <<store, now, nextId, sess>>

\* the clock advances
Tick ==
    /\ now < MaxTime
    /\ now' = now + 1
    /\ UNCHANGED <<store, nextId, resp, sess>>

(***************************************************************************)
(* Inputs.                                                                 *)
(***************************************************************************)
URL_OK == <<"h", "t", "t", "p", "s", ":", "/", "/", "a", ".", "b", "/", "c", "?", "x", "=", "1">>

BodyBase ==
    [title       |-> <<"S", "a", "l", "e">>,
     description |-> <<"1", "0", "%">>,
     image_url   |-> <<"h", "t", "t", "p", ":", "/", "/", "i", "/", "1">>,
     link_url    |-> URL_OK,
     start_date  |-> 0,
     end_date    |-> 2]

\* end_date <= start_date: rejected
BodyBadDates == [BodyBase EXCEPT !.start_date = 1, !.end_date = 1]

\* every optional field sent
BodyFull ==
    [title        |-> <<"N", "e", "w">>,
     description  |-> <<"2", "x">>,
     image_url    |-> <<"h", "t", "t", "p", ":", "/", "/", "i", "/", "2">>,
     link_url     |-> <<"h", "t", "t", "p", ":", "/", "/", "a", ".", "b">>,
     tag_type     |-> "custom",
     tag_text     |-> <<"H", "O", "T">>,
     tag_color    |-> <<"#", "0", "0", "f", "f", "7", "f">>,
     start_date   |-> 1,
     end_date     |-> 2,
     priority     |-> Some(1),
     utm_campaign |-> Some(<<"c", "1">>),
     status       |-> "active"]

TrackBodies == {BodyBase, BodyFull, BodyBadDates}
TrackTags == {"view", "click", "like"}

\* ids a request may name: every id handed out so far and one never handed out
RequestIds == 1..nextId

\* the views and clicks counted on the rows of the store
RECURSIVE CountedIn(_, _)
CountedIn(rows, ids) ==
    IF ids = {} THEN 0
    ELSE LET id == CHOOSE x \in ids : TRUE
         IN rows[id].view_count + rows[id].click_count + CountedIn(rows, ids \ {id})

\* one more view or click may be counted
CanCount == CountedIn(store, DOMAIN store) < MaxCount

Init ==
    /\ store = <<>>
    /\ now = 0
    /\ nextId = 1
    /\ resp = [op |-> "none"]
    /\ sess = [s \in Sessions |-> IdleSession]

(***************************************************************************)
(* Spec: create, track, delete and the clock.                              *)
(***************************************************************************)
Next ==
    \/ \E body \in TrackBodies : nextId <= MaxIds /\ Create(body)
    \/ \E id \in RequestIds, t \in TrackTags : CanCount /\ Track(id, t)
    \/ Tick

Spec == Init /\ [][Next]_vars

(***************************************************************************)
(* C4 (as stated in the claim): a track with tag "view" adds exactly 1 to   *)
(* view_count and leaves click_count unchanged, with tag "click" adds       *)
(* exactly 1 to click_count and leaves view_count unchanged, with any       *)
(* other tag fails with both counters unchanged; every other field of the   *)
(* promotion and every other promotion is unchanged; a track on a           *)
(* non-existent id fails with the store unchanged.                          *)
(***************************************************************************)
CounterFields == {"view_count", "click_count"}

TrackEffect(id, t, exempt) ==
    IF id \in DOMAIN store
    THEN /\ DOMAIN store' = DOMAIN store
         /\ \A o \in DOMAIN store \ {id} : store'[o] = store[o]
         /\ t = "view" =>
                /\ store'[id].view_count = store[id].view_count + 1
                /\ store'[id].click_count = store[id].click_count
                /\ resp'.kind = "ok"
         /\ t = "click" =>
                /\ store'[id].click_count = store[id].click_count + 1
                /\ store'[id].view_count = store[id].view_count
                /\ resp'.kind = "ok"
         /\ t \notin {"view", "click"} =>
                /\ store'[id] = store[id]
                /\ resp'.kind # "ok"
         /\ \A f \in DOMAIN store[id] \ (CounterFields \cup exempt) :
                store'[id][f] = store[id][f]
    ELSE store' = store /\ resp'.kind # "ok"

C4_TrackFrameAsClaimed ==
    [][\A id \in RequestIds, t \in TrackTags : (resp'.op = "track" /\ Track(id, t)) => TrackEffect(id, t, {})]_vars

(***************************************************************************)
(* C4 (amended): as above, except that a successful track also sets the     *)
(* promotion's updated_at to the current time (the column's onupdate);      *)
(* every field other than the counted counter and updated_at is unchanged.  *)
(***************************************************************************)
C4_TrackFrame ==
    [][\A id \in RequestIds, t \in TrackTags :
          (resp'.op = "track" /\ Track(id, t)) =>
              /\ TrackEffect(id, t, {"updated_at"})
              /\ (id \in DOMAIN store /\ t \in {"view", "click"}) =>
                     store'[id].updated_at = now]_vars

\* a view was counted on one of two promotions, after the clock had advanced
C4_Witness ==
    /\ resp.op = "track" /\ resp.kind = "ok" /\ resp.type = "view"
    /\ Cardinality(DOMAIN store) = 2
    /\ resp.id \in DOMAIN store
    /\ store[resp.id].view_count = 1
    /\ store[resp.id].updated_at > store[resp.id].created_at

(***************************************************************************)
(* SpecDup: create, track, duplicate and delete.                           *)
(***************************************************************************)
DupBodies == {BodyBase, BodyFull}

NextDup ==
    \/ \E body \in DupBodies : nextId <= MaxIds /\ Create(body)
    \/ \E id \in RequestIds, t \in TrackTypes : CanCount /\ Track(id, t)
    \/ \E id \in RequestIds : nextId <= MaxIds /\ Duplicate(id)
    \/ \E id \in RequestIds : nextId > MaxIds /\ Duplicate(id) /\ id \notin DOMAIN store
    \/ \E id \in RequestIds : Delete(id)

SpecDup == Init /\ [][NextDup]_vars

(***************************************************************************)
(* C9: a duplicate of an existing promotion adds exactly one promotion,     *)
(* under an id no existing promotion has, with status DRAFT and both        *)
(* counters 0 whatever the source's status and counters, and with the       *)
(* source's description, image_url, link_url, tag fields, dates, priority   *)
(* and utm_campaign; the source and all other promotions are unchanged; a   *)
(* duplicate of a non-existent id is NotFound and leaves the store          *)
(* unchanged.                                                              *)
(***************************************************************************)
CopiedFields ==
    {"description", "image_url", "link_url", "tag_type", "tag_text", "tag_color",
     "start_date", "end_date", "priority", "utm_campaign"}

C9_DuplicateFrame ==
    [][\A id \in RequestIds :
          (resp'.op = "duplicate" /\ Duplicate(id)) =>
              IF id \in DOMAIN store
              THEN /\ resp'.kind = "Created"
                   /\ Cardinality(DOMAIN store' \ DOMAIN store) = 1
                   /\ DOMAIN store \subseteq DOMAIN store'
                   /\ \A o \in DOMAIN store : store'[o] = store[o]
                   /\ \A n \in DOMAIN store' \ DOMAIN store :
                          /\ store'[n].status = "draft"
                          /\ store'[n].view_count = 0
                          /\ store'[n].click_count = 0
                          /\ \A f \in CopiedFields : store'[n][f] = store[id][f]
              ELSE /\ resp'.kind = "NotFound"
                   /\ store' = store]_vars

\* an ACTIVE promotion with a counted view next to its DRAFT copy
C9_Witness ==
    /\ resp.op = "duplicate" /\ resp.kind = "Created"
    /\ \E a \in DOMAIN store, b \in DOMAIN store :
          /\ a # b
          /\ store[a].status = "active"
          /\ store[a].view_count > 0
          /\ store[b].title = store[a].title \o COPY_SUFFIX
          /\ store[b].status = "draft"
          /\ store[b].view_count = 0
          /\ store[b].utm_campaign = store[a].utm_campaign

(***************************************************************************)
(* SpecDates: create, update of the dates, duplicate.                      *)
(***************************************************************************)
DateBodies == {BodyBase, BodyFull, BodyBadDates}

DatePatches ==
    {[end_date |-> Some(3)],
     [end_date |-> Some(0)],
     [start_date |-> Some(2)],
     [start_date |-> Some(2), end_date |-> Some(1)],
     [start_date |-> Some(1), end_date |-> Some(3)]}

NextDates ==
    \/ \E body \in DateBodies : nextId <= MaxIds /\ Create(body)
    \/ \E id \in RequestIds, body \in DatePatches : Update(id, body)
    \/ \E id \in RequestIds : nextId <= MaxIds /\ Duplicate(id)

SpecDates == Init /\ [][NextDates]_vars

(***************************************************************************)
(* C2: in every reachable state of the store, every stored promotion has    *)
(* end_date > start_date, whatever sequence of accepted create, update and  *)
(* duplicate requests produced it.                                          *)
(***************************************************************************)
C2_EndAfterStart ==
    \A id \in DOMAIN store : store[id].end_date > store[id].start_date

(***************************************************************************)
(* SpecRedirect: create with a range of link URLs, redirect.               *)
(***************************************************************************)
RedirectUrls ==
    {URL_OK,
     <<"h", "t", "t", "p", ":", "/", "/", "a", ".", "b">>,
     <<"H", "T", "T", "P", ":", "/", "/", "a", ".", "b">>,
     <<"j", "a", "v", "a", "s", "c", "r", "i", "p", "t", ":", "a", "(", "1", ")">>,
     <<"/", "r", "e", "l", "/", "p">>,
     <<"f", "t", "p", ":", "/", "/", "h", "/", "x">>,
     <<"f", "i", "l", "e", ":", "/", "/", "/", "x">>,
     <<"/", "/", "a", ".", "b", "/", "x">>,
     <<>>,
     <<"h", "t", "t", "p", ":", "/", "/", "/", "x">>,
     <<"h", "t", "t", "p", ":", "a", ".", "b">>,
     <<"h", "t", "t", "p", ":", "/", "/", ":", "8", "0", "/", "x">>,
     <<"h", "t", "t", "p", "s", ":", "/", "/", "u", "@", "/", "p">>,
     <<"h", "t", "t", "p", ":", "/", "/", "u", "@", "a", ".", "b", ":", "8", "0">>}

RedirectBodies == {[BodyBase EXCEPT !.link_url = u] : u \in RedirectUrls}

NextRedirect ==
    \/ \E body \in RedirectBodies : nextId <= MaxIds /\ Create(body)
    \/ \E id \in RequestIds : CanCount /\ Redirect(id)

SpecRedirect == Init /\ [][NextRedirect]_vars

(***************************************************************************)
(* C5: the redirect flow never signals a redirect and never changes a       *)
(* counter for a promotion whose stored link_url has a scheme other than    *)
(* http or https or an empty host: the request ends with                    *)
(* InvalidRedirectTarget and the store unchanged; for a non-existent id it  *)
(* ends with NotFound and the store unchanged.                              *)
(*                                                                         *)
(* The scheme of a URL is compared as RFC 3986 has it, without regard to    *)
(* case; the host is the authority without its userinfo ("...@") and its    *)
(* port (":...").                                                           *)
(***************************************************************************)
SchemeOfUrl(url) == urlsplit(url).scheme

HostOfUrl(url) ==
    LET authority == urlsplit(url).netloc
        at == RFind(authority, "@")
        hostport == Suffix(authority, at)
        colon == Find(hostport, ":")
    IN IF colon = 0 THEN hostport ELSE Prefix(hostport, colon - 1)

UnsafeTarget(url) ==
    \/ SchemeOfUrl(url) \notin {HTTP, HTTPS}
    \/ HostOfUrl(url) = <<>>

C5_UnsafeTargetRejected ==
    [][\A id \in RequestIds :
          (resp'.op = "redirect" /\ Redirect(id)) =>
              IF id \notin DOMAIN store
              THEN resp'.kind = "NotFound" /\ store' = store
              ELSE UnsafeTarget(store[id].link_url) =>
                       (resp'.kind = "InvalidRedirectTarget" /\ store' = store)]_vars

(***************************************************************************)
(* SpecActive: create, update of the status, the clock, the active list.   *)
(***************************************************************************)
\* ACTIVE, its window ends at instant 0
BodyEarly == [BodyBase EXCEPT !.start_date = -1, !.end_date = 0] @@ [status |-> "active"]

\* BodyFull: ACTIVE, its window starts at instant 1;  BodyBase: DRAFT
ActiveBodies == {BodyEarly, BodyFull, BodyBase}

StatusPatches == {[status |-> Some("active")], [status |-> Some("inactive")]}

ActiveLimits == {None, Some(0), Some(1)}

NextActive ==
    \/ \E body \in ActiveBodies : nextId <= MaxIds /\ Create(body)
    \/ \E id \in RequestIds, body \in StatusPatches : Update(id, body)
    \/ \E limit \in ActiveLimits : ActiveList(limit)
    \/ Tick

SpecActive == Init /\ [][NextActive]_vars

(***************************************************************************)
(* C7: for every store and every call instant, the active list holds a      *)
(* promotion only if its status is ACTIVE and start_date <= now <= end_date *)
(* (both bounds inclusive), and with no limit it holds every such           *)
(* promotion (once); the stored status alone never puts a promotion on the  *)
(* list outside its window, and the clock crossing start_date or end_date   *)
(* is all it takes to put it on or take it off.  A step that yields a new   *)
(* active-list response is a call of the list; the response records the     *)
(* instant of the call and its limit.                                       *)
(***************************************************************************)
ActiveNow(id) ==
    /\ store[id].status = "active"
    /\ store[id].start_date <= now
    /\ now <= store[id].end_date

C7_ActiveListIsDerived ==
    [][(resp' # resp /\ resp'.op = "active" /\ resp'.kind = "ok") =>
          LET items == resp'.items
          IN /\ store' = store /\ now' = now /\ resp'.at = now
             /\ \A i \in 1..Len(items) : items[i] \in DOMAIN store /\ ActiveNow(items[i])
             /\ \A i \in 1..Len(items), j \in 1..Len(items) : items[i] = items[j] => i = j
             /\ resp'.limit = None => \A id \in DOMAIN store : ActiveNow(id) =>
                    \E i \in 1..Len(items) : items[i] = id]_vars

\* the list, asked for at the instant a window opens, holds a promotion that no
\* request touched since its creation before that window, and leaves out an
\* ACTIVE promotion whose window has closed
C7_Witness ==
    /\ resp.op = "active" /\ resp.kind = "ok" /\ resp.at = now
    /\ \E a \in DOMAIN store, b \in DOMAIN store :
          /\ \E i \in 1..Len(resp.items) : resp.items[i] = a
          /\ store[a].start_date = now
          /\ store[a].updated_at = store[a].created_at
          /\ store[a].created_at < now
          /\ store[b].status = "active"
          /\ store[b].end_date < now
          /\ \A i \in 1..Len(resp.items) : resp.items[i] # b

(***************************************************************************)
(* SpecOrder: promotions that are all on the active list, with priorities  *)
(* null, 1 and 2, created at the instants the clock passes through.        *)
(***************************************************************************)
OrderWindowEnd == MaxTime + 1

OrderBody(priority) ==
    [title |-> <<"P">>, description |-> <<>>, image_url |-> <<>>, link_url |-> <<>>,
     tag_text |-> <<>>, tag_color |-> <<"#", "0", "0", "0", "0", "0", "0">>,
     start_date |-> 0, end_date |-> OrderWindowEnd, status |-> "active",
     priority |-> priority]

OrderBodies == {OrderBody(None), OrderBody(Some(1)), OrderBody(Some(2))}

OrderLimits == {None, Some(2)}

NextOrder ==
    \/ \E body \in OrderBodies : nextId <= MaxOrderIds /\ Create(body)
    \/ \E limit \in OrderLimits : ActiveList(limit)
    \/ Tick

SpecOrder == Init /\ [][NextOrder]_vars

(***************************************************************************)
(* C8: the active list is ordered by priority ascending, every null         *)
(* priority after every non-null one, equal priorities (nulls included) by  *)
(* created_at descending; with a limit n the result is the first n          *)
(* elements of that ordering: it has min(n, number of active promotions)    *)
(* elements and no promotion left out sorts before one that is included.    *)
(* Every request that changes the store replaces the response, so while     *)
(* the last response is an active list the store is the one it was read     *)
(* from.                                                                    *)
(***************************************************************************)
\* the order of the claim: promotion x may not come after promotion y
MustPrecede(x, y) ==
    LET px == store[x].priority
        py == store[y].priority
    IN \/ px # None /\ py = None
       \/ px # None /\ py # None /\ px[1] < py[1]
       \/ px = py /\ store[x].created_at > store[y].created_at

C8_ActiveListOrder ==
    (resp.op = "active" /\ resp.kind = "ok") =>
        LET items == resp.items
            limit == resp.limit
            listed == {items[i] : i \in 1..Len(items)}
            active == {id \in DOMAIN store :
                          /\ store[id].status = "active"
                          /\ store[id].start_date <= resp.at
                          /\ resp.at <= store[id].end_date}
        IN /\ \A i \in 1..Len(items), j \in 1..Len(items) :
                  i < j => ~MustPrecede(items[j], items[i])
           /\ listed \subseteq active
           /\ Cardinality(listed) = Len(items)
           /\ Len(items) = IF limit = None \/ Cardinality(active) < limit[1]
                           THEN Cardinality(active) ELSE limit[1]
           /\ \A x \in active \ listed, y \in listed : ~MustPrecede(x, y)

\* priorities [null, 2, 1, null], created in that order at successive instants
\* or not, are listed as [1, 2, null (newer), null (older)]
C8_Witness ==
    /\ resp.op = "active" /\ resp.kind = "ok" /\ resp.limit = None
    /\ DOMAIN store = 1..4
    /\ store[1].priority = None /\ store[2].priority = Some(2)
    /\ store[3].priority = Some(1) /\ store[4].priority = None
    /\ store[4].created_at > store[1].created_at
    /\ resp.items = <<3, 2, 4, 1>>

(***************************************************************************)
(* SpecTitle: one promotion is created with a title of any accepted length *)
(* (and one length too many), then duplicated, and its copy duplicated.    *)
(***************************************************************************)
TitleAlphabet ==
    <<"a", "b", "c", "d", "e", "f", "g", "h", "i", "j", "k", "l", "m", "n", "o", "p",
      "q", "r", "s", "t", "u", "v", "w", "x", "y", "z", "A", "B", "C", "D", "E", "F",
      "G", "H", "I", "J", "K", "L", "M", "N", "O", "P", "Q", "R", "S", "T", "U", "V",
      "W", "X", "Y", "Z", "0", "1", "2", "3", "4", "5", "6", "7", "8", "9">>

\* the title of n characters, all different
TitleOfLen(n) == Prefix(TitleAlphabet, n)

TitleBodies == {[BodyBase EXCEPT !.title = TitleOfLen(n)] : n \in 0..(TITLE_MAX + 1)}

NextTitle ==
    \/ \E body \in TitleBodies : nextId = 1 /\ Create(body)
    \/ \E id \in RequestIds : nextId <= MaxIds + 1 /\ Duplicate(id)

SpecTitle == Init /\ [][NextTitle]_vars

(***************************************************************************)
(* C10 as claimed: for every source title (length 0..60) the title of the   *)
(* duplicate is the first 40 characters of the source title followed by     *)
(* the suffix: the suffix is appended first and the whole truncated         *)
(* afterwards.                                                              *)
(***************************************************************************)
C10_TitleAppendThenTruncate ==
    [][\A id \in RequestIds :
          (resp'.op = "duplicate" /\ Duplicate(id) /\ id \in DOMAIN store) =>
              store'[resp'.id].title = Prefix(store[id].title \o COPY_SUFFIX, DUP_TITLE_MAX)]_vars

(***************************************************************************)
(* C10 as amended: for every source title (length 0..60) the title of the   *)
(* duplicate is the source title, cut to its first 35 characters when it    *)
(* is longer than 35, followed by the complete suffix; it is never longer   *)
(* than 40 characters.                                                      *)
(***************************************************************************)
C10_DuplicateTitle ==
    [][\A id \in RequestIds :
          (resp'.op = "duplicate" /\ Duplicate(id) /\ id \in DOMAIN store) =>
              LET source == store[id].title
                  kept   == IF Len(source) > DUP_KEEP THEN DUP_KEEP ELSE Len(source)
                  copy   == store'[resp'.id].title
              IN /\ Len(copy) = kept + Len(COPY_SUFFIX)
                 /\ Len(copy) <= DUP_TITLE_MAX
                 /\ \A i \in 1..kept : copy[i] = source[i]
                 /\ \A i \in 1..Len(COPY_SUFFIX) : copy[kept + i] = COPY_SUFFIX[i]]_vars

\* a title of 38 characters next to its copy, whose title differs from the
\* first 40 characters of the 38 followed by the suffix
C10_Witness ==
    /\ resp.op = "duplicate" /\ resp.kind = "Created"
    /\ \E a \in DOMAIN store :
          /\ Len(store[a].title) = 38
          /\ store[resp.id].title = Prefix(store[a].title, DUP_KEEP) \o COPY_SUFFIX
          /\ store[resp.id].title # Prefix(store[a].title \o COPY_SUFFIX, DUP_TITLE_MAX)

(***************************************************************************)
(* Requests that overlap.  Each request runs in its own AsyncSession       *)
(* (get_db): the handler's awaits are steps of its session, the commit     *)
(* follows the handler's return, an exception rolls the session back.      *)
(* The engine sets no isolation level: the database runs the sessions at   *)
(* its default, READ COMMITTED, where a SELECT reads the committed rows    *)
(* and an UPDATE waits for the row lock of an uncommitted UPDATE and then  *)
(* writes its literal values over the committed row.                       *)
(***************************************************************************)
\* the column track_pr changes for a track type
CounterColumn(track_type) == IF track_type = "view" THEN "view_count" ELSE "click_count"

\* one of the sessions others holds the row lock of id: it has flushed an
\* UPDATE of the row and not yet committed
Locked(id, others) ==
    \E t \in others :
        /\ sess[t].pc \in {"flushed", "signalled"}
        /\ sess[t].wrote
        /\ sess[t].id = id

\* the request ended: its outcome, and the sessions that had read the same
\* row and not yet flushed when it ended
Ended(se, kind, readers) ==
    [pc |-> "done", op |-> se.op, id |-> se.id, type |-> se.type, kind |-> kind,
     lookup |-> se.lookup, pr |-> se.pr, log |-> se.log, wrote |-> se.wrote,
     overlap |-> readers]

\* the request ended before it loaded a row
EndedEarly(op, id, track_type, kind) ==
    [pc |-> "done", op |-> op, id |-> id, type |-> track_type, kind |-> kind,
     lookup |-> None, pr |-> None, log |-> <<>>, wrote |-> FALSE, overlap |-> {}]

\* track_pr (handler and service) up to the flush: the SELECT of get_pr_by_id
\* and the increment of the loaded object
TrackSelect(s, id, track_type) ==
    /\ sess[s].pc = "idle"
    /\ sess' = [sess EXCEPT ![s] =
           IF ~TrackRequestAccepted(track_type)
           THEN EndedEarly("track", id, track_type, "ValidationError")
           ELSE IF id \notin DOMAIN store
           THEN EndedEarly("track", id, track_type, "NotFound")
           ELSE [pc |-> "dirty", op |-> "track", id |-> id, type |-> track_type,
                 lookup |-> Some(store[id]), pr |-> Some(TrackRow(store[id], track_type)),
                 log |-> <<"lookup", "track">>, wrote |-> FALSE]]
    /\ UNCHANGED <<store, now, nextId, resp>>

\* track_pr, line 137: the flush emits UPDATE ... SET <counter> = <value of the
\* loaded object>, updated_at = now() WHERE id = <id>; it waits while another
\* session holds the row lock; an UPDATE that matches no row raises
\* StaleDataError and get_db rolls back
TrackFlush(s) ==
    /\ sess[s].pc = "dirty"
    /\ ~Locked(sess[s].id, Sessions \ {s})
    /\ sess' = [sess EXCEPT ![s] =
           IF sess[s].id \notin DOMAIN store
           THEN Ended(sess[s], "StaleDataError", {})
           ELSE [sess[s] EXCEPT !.pc = "flushed", !.wrote = TRUE] @@ [at |-> now]]
    /\ UNCHANGED <<store, now, nextId, resp>>

\* the committed row after the session's UPDATE: the counter of the loaded
\* object and updated_at, the other columns as committed
FlushedRow(row, se) ==
    [row EXCEPT ![CounterColumn(se.type)] = se.pr[1][CounterColumn(se.type)],
                !.updated_at = se.at]

\* get_db, line 50: the commit after the handler returned
TxCommit(s) ==
    /\ \/ sess[s].pc = "flushed" /\ sess[s].op = "track"
       \/ sess[s].pc = "signalled"
    /\ store' = IF sess[s].wrote
                THEN [store EXCEPT ![sess[s].id] = FlushedRow(@, sess[s])]
                ELSE store
    /\ sess' = [sess EXCEPT ![s] =
           Ended(sess[s], IF sess[s].op = "track" THEN "ok" ELSE "Redirect302",
                 {t \in Sessions \ {s} : sess[t].pc = "dirty" /\ sess[t].id = sess[s].id})]
    /\ UNCHANGED <<now, nextId, resp>>

\* get_db, line 55: the session is closed and serves the next request
TxClose(s) ==
    /\ sess[s].pc = "done"
    /\ sess' = [sess EXCEPT ![s] = IdleSession]
    /\ UNCHANGED <<store, now, nextId, resp>>

\* redirect_pr, lines 220-225: the lookup
RedirLookup(s, id) ==
    /\ sess[s].pc = "idle"
    /\ sess' = [sess EXCEPT ![s] =
           IF id \notin DOMAIN store
           THEN EndedEarly("redirect", id, "click", "NotFound")
           ELSE [pc |-> "looked", op |-> "redirect", id |-> id, type |-> "click",
                 lookup |-> Some(store[id]), pr |-> Some(store[id]),
                 log |-> <<"lookup">>, wrote |-> FALSE]]
    /\ UNCHANGED <<store, now, nextId, resp>>

\* redirect_pr, lines 227-236: the validation of the loaded link_url
RedirValidate(s) ==
    /\ sess[s].pc = "looked"
    /\ sess' = [sess EXCEPT ![s] =
           IF ~is_valid_redirect_url(sess[s].pr[1].link_url)
           THEN Ended(sess[s], "InvalidRedirectTarget", {})
           ELSE [sess[s] EXCEPT !.pc = "validated", !.log = Append(@, "validate")]]
    /\ UNCHANGED <<store, now, nextId, resp>>

\* a redirect_pr that looks at track_pr's return value as the track endpoint
\* does, and answers 404 when the row is gone
RedirTrackSelectChecked(s) ==
    /\ sess[s].pc = "validated"
    /\ sess' = [sess EXCEPT ![s] =
           IF sess[s].id \notin DOMAIN store
           THEN Ended(sess[s], "NotFound", {})
           ELSE [sess[s] EXCEPT !.pc = "dirty", !.log = Append(@, "track"),
                                !.pr = Some(TrackRow(@[1], "click"))]]
    /\ UNCHANGED <<store, now, nextId, resp>>

\* redirect_pr, line 238, up to the flush of track_pr: get_pr_by_id selects the
\* row again; when the row is gone track_pr returns False, which redirect_pr
\* does not look at; when it is there the session's identity map hands back
\* the object loaded by the lookup, its attributes as loaded, and track_pr
\* increments its click_count
RedirTrackSelect(s) ==
    /\ sess[s].pc = "validated"
    /\ sess' = [sess EXCEPT ![s] =
           IF sess[s].id \notin DOMAIN store
           THEN [sess[s] EXCEPT !.pc = "untracked", !.log = Append(@, "track")]
           ELSE [sess[s] EXCEPT !.pc = "dirty", !.log = Append(@, "track"),
                                !.pr = Some(TrackRow(@[1], "click"))]]
    /\ UNCHANGED <<store, now, nextId, resp>>

\* redirect_pr, lines 240-244: the 302 response is built from the loaded object
RedirSignal(s) ==
    /\ sess[s].pc \in {"flushed", "untracked"}
    /\ sess[s].op = "redirect"
    /\ sess' = [sess EXCEPT ![s] =
           [sess[s] EXCEPT !.pc = "signalled", !.log = Append(@, "redirect")]]
    /\ UNCHANGED <<store, now, nextId, resp>>

(***************************************************************************)
(* SpecTx: track requests in overlapping sessions, next to create and      *)
(* delete requests served in one step when no session holds the row lock.  *)
(***************************************************************************)
NextTx ==
    \/ nextId <= MaxIds /\ Create(BodyBase)
    \/ \E s \in Sessions, id \in RequestIds, track_type \in TrackTags :
          CanCount /\ TrackSelect(s, id, track_type)
    \/ \E s \in Sessions : TrackFlush(s)
    \/ \E s \in Sessions : TxCommit(s)
    \/ \E s \in Sessions : TxClose(s)
    \/ \E id \in RequestIds : ~Locked(id, Sessions) /\ Delete(id)
    \/ Tick

SpecTx == Init /\ [][NextTx]_vars

(***************************************************************************)
(* C3: no increment is lost under concurrent trackers: when two track       *)
(* requests of the same type on the same existing promotion ran in          *)
(* overlapping transactions (each read the row before the other committed)  *)
(* and both committed, the counter is the value they read + 2.              *)
(***************************************************************************)
C3_NoLostIncrement ==
    \A s \in Sessions, t \in Sessions :
        ( /\ s # t
          /\ sess[s].pc = "done" /\ sess[s].kind = "ok"
          /\ sess[t].pc = "done" /\ sess[t].kind = "ok"
          /\ sess[s].id = sess[t].id /\ sess[s].type = sess[t].type
          /\ t \in sess[s].overlap
          /\ sess[s].lookup = sess[t].lookup
          /\ sess[s].id \in DOMAIN store )
        => store[sess[s].id][CounterColumn(sess[s].type)]
               = sess[s].lookup[1][CounterColumn(sess[s].type)] + 2

(***************************************************************************)
(* C1: for every promotion that exists before and after a step, view_count  *)
(* and click_count are >= 0 and neither is smaller after the step than      *)
(* before it; a counter changes only by +1.                                 *)
(***************************************************************************)
C1_CountersMonotone ==
    [][\A id \in DOMAIN store \cap DOMAIN store' :
          \A c \in {"view_count", "click_count"} :
              /\ store'[id][c] >= 0
              /\ store'[id][c] >= store[id][c]
              /\ store'[id][c] # store[id][c] => store'[id][c] = store[id][c] + 1]_vars

(***************************************************************************)
(* SpecRedirTx: redirect requests in overlapping sessions, next to create  *)
(* and delete requests served in one step when no session holds the row    *)
(* lock.                                                                   *)
(***************************************************************************)
RedirTxBodies == {BodyBase, [BodyBase EXCEPT !.link_url = <<"f", "t", "p", ":", "/", "/", "h">>]}

NextRedirTx ==
    \/ \E body \in RedirTxBodies : nextId <= MaxIds /\ Create(body)
    \/ \E s \in Sessions, id \in RequestIds : CanCount /\ RedirLookup(s, id)
    \/ \E s \in Sessions : RedirValidate(s)
    \/ \E s \in Sessions : RedirTrackSelect(s)
    \/ \E s \in Sessions : TrackFlush(s)
    \/ \E s \in Sessions : RedirSignal(s)
    \/ \E s \in Sessions : TxCommit(s)
    \/ \E s \in Sessions : TxClose(s)
    \/ \E id \in RequestIds : ~Locked(id, Sessions) /\ Delete(id)

SpecRedirTx == Init /\ [][NextRedirTx]_vars

\* the row of the session's promotion as a statement of the session's
\* transaction reads it: the committed row under the session's own UPDATE
TxRow(s) ==
    IF sess[s].id \notin DOMAIN store THEN None
    ELSE IF sess[s].wrote THEN Some(FlushedRow(store[sess[s].id], sess[s]))
    ELSE Some(store[sess[s].id])

(***************************************************************************)
(* C6: in a redirect request for an existing promotion with a valid         *)
(* link_url the click is recorded before the 302 is signalled: when the     *)
(* redirect is signalled, click_count of the promotion within the           *)
(* request's transaction is its value at lookup + 1, view_count is          *)
(* unchanged, and the steps were lookup, validation, track, redirect in     *)
(* that order.                                                              *)
(***************************************************************************)
C6_ClickBeforeRedirect ==
    \A s \in Sessions :
        sess[s].pc = "signalled" =>
            /\ sess[s].log = <<"lookup", "validate", "track", "redirect">>
            /\ TxRow(s) # None
            /\ TxRow(s)[1].click_count = sess[s].lookup[1].click_count + 1
            /\ TxRow(s)[1].view_count = sess[s].lookup[1].view_count

(***************************************************************************)
(* C11: the duplicate of a promotion whose title has 38 characters has a    *)
(* title of exactly 40 characters that ends with the complete copy marker;  *)
(* no duplicate's title is longer than 40 characters.                       *)
(***************************************************************************)
C11_DuplicateTitleLength ==
    [][\A id \in RequestIds :
          (resp'.op = "duplicate" /\ Duplicate(id) /\ id \in DOMAIN store) =>
              LET copy == store'[resp'.id].title
              IN /\ Len(copy) <= 40
                 /\ Len(store[id].title) = 38 =>
                        /\ Len(copy) = 40
                        /\ Suffix(copy, Len(copy) - Len(COPY_SUFFIX)) = COPY_SUFFIX]_vars

\* a title of 38 characters next to its copy of 40 characters that ends with
\* the marker
C11_Witness ==
    /\ resp.op = "duplicate" /\ resp.kind = "Created"
    /\ \E a \in DOMAIN store :
          /\ Len(store[a].title) = 38
          /\ Len(store[resp.id].title) = 40
          /\ store[resp.id].title[40] = ")"
          /\ store[resp.id].title[36] = "("

(***************************************************************************)
(* SpecUpdate: create, views of the first promotion, the clock, and        *)
(* updates whose payloads hold no field, fields equal to and different     *)
(* from the stored values, an explicit null, a key that is no field of the *)
(* model, and a value that is no colour.                                   *)
(***************************************************************************)
UpdatePatches ==
    {<<>>,
     [title |-> Some(<<"N", "e", "w">>), tag_color |-> Some(<<"#", "a", "b", "c", "d", "e", "f">>),
      priority |-> None, status |-> Some("active"), view_count |-> Some(5)],
     [title |-> None],
     [tag_color |-> Some(<<"r", "e", "d">>)]}

NextUpdate ==
    \/ nextId <= MaxIds /\ Create(BodyFull)
    \/ CanCount /\ Track(1, "view")
    \/ \E id \in RequestIds, body \in UpdatePatches : Update(id, body)
    \/ Tick

SpecUpdate == Init /\ [][NextUpdate]_vars

(***************************************************************************)
(* C12: a successful update of promotion p writes every field of the        *)
(* payload (also one equal to the stored value) and keeps every omitted     *)
(* field, sets updated_at to the current time even when no field value      *)
(* differs, and leaves p's id, created_at, view_count and click_count and   *)
(* every other promotion unchanged; an update of a non-existent id is       *)
(* NotFound and leaves the store unchanged.                                 *)
(***************************************************************************)
\* the value a row holds for a payload value: a nullable column holds the
\* Optional itself, the colour is held upper-cased
Written(f, v) ==
    IF f \in {"priority", "utm_campaign"} THEN v
    ELSE IF f = "tag_color" THEN Upper(v[1])
    ELSE v[1]

C12_UpdateFrame ==
    [][\A id \in RequestIds, body \in UpdatePatches :
          (resp'.op = "update" /\ resp'.id = id /\ Update(id, body)) =>
              /\ resp'.kind = "ok" =>
                    /\ DOMAIN store' = DOMAIN store
                    /\ \A o \in DOMAIN store \ {id} : store'[o] = store[o]
                    /\ \A f \in DOMAIN body \cap UpdateFields :
                           store'[id][f] = Written(f, body[f])
                    /\ \A f \in DOMAIN store[id] \ (DOMAIN body \cup {"updated_at"}) :
                           store'[id][f] = store[id][f]
                    /\ \A f \in {"created_at", "view_count", "click_count"} :
                           store'[id][f] = store[id][f]
                    /\ store'[id].updated_at = now
              /\ resp'.kind # "ok" => store' = store
              /\ id \notin DOMAIN store /\ resp'.kind # "ValidationError" =>
                    resp'.kind = "NotFound"]_vars

\* a promotion with a counted view, updated at a later instant than its
\* creation, holds the payload's title and its colour upper-cased, and the
\* current time in updated_at, next to a promotion no update touched
C12_Witness ==
    /\ resp.op = "update" /\ resp.kind = "ok"
    /\ \E p \in DOMAIN store, o \in DOMAIN store :
          /\ p = resp.id /\ o # p
          /\ store[p].view_count > 0
          /\ store[p].updated_at = now
          /\ store[p].created_at < now
          /\ store[p].title = <<"N", "e", "w">>
          /\ store[p].tag_color = <<"#", "0", "0", "F", "F", "7", "F">>

(***************************************************************************)
(* C13: a create request and an update request that supply start_date and   *)
(* end_date together with end_date <= start_date are rejected with a        *)
(* ValidationError and persist nothing.                                     *)
(***************************************************************************)
C13_BadDatesRejected ==
    [][/\ \A body \in DateBodies :
             (resp'.op = "create" /\ Create(body) /\ body.end_date <= body.start_date) =>
                 resp'.kind = "ValidationError" /\ store' = store
       /\ \A id \in RequestIds, body \in DatePatches :
             ( /\ resp'.op = "update" /\ resp'.id = id /\ Update(id, body)
               /\ id \in DOMAIN store
               /\ Has(body, "start_date") /\ Has(body, "end_date")
               /\ body.end_date[1] <= body.start_date[1] ) =>
                 resp'.kind = "ValidationError" /\ store' = store]_vars

(***************************************************************************)
(* PR list.  get_pr_list runs two statements in the request's session: the *)
(* count, then the page of items.  At READ COMMITTED each statement reads  *)
(* the rows committed when it starts.                                      *)
(***************************************************************************)
LIST_PAGE_MIN == 1
LIST_LIMIT_MIN == 1
LIST_LIMIT_MAX == 100

\* the Query(1, ge=1) and Query(20, ge=1, le=100) of the handler
ListQueryAccepted(status, page, limit) ==
    /\ status # None => status[1] \in PRStatuses
    /\ page >= LIST_PAGE_MIN
    /\ limit >= LIST_LIMIT_MIN /\ limit <= LIST_LIMIT_MAX

\* get_pr_list, lines 24-25: the ids the status filter keeps
ListMatching(rows, status) ==
    {id \in DOMAIN rows : status = None \/ rows[id].status = status[1]}

\* get_pr_list, line 31: every order in which ORDER BY created_at DESC may
\* return the rows of ids
RECURSIVE ListOrderings(_, _)
ListOrderings(rows, ids) ==
    IF ids = {} THEN {<<>>}
    ELSE UNION {{<<x>> \o rest : rest \in ListOrderings(rows, ids \ {x})} :
                   x \in {y \in ids : \A z \in ids : rows[z].created_at <= rows[y].created_at}}

\* get_pr_list, line 32: OFFSET (page - 1) * limit LIMIT limit
ListPage(items, page, limit) ==
    SubSeq(items, (page - 1) * limit + 1,
           IF page * limit < Len(items) THEN page * limit ELSE Len(items))

\* get_pr_list, lines 27-29: the count statement
ListCount(s, status, page, limit) ==
    /\ sess[s].pc = "idle"
    /\ sess' = [sess EXCEPT ![s] =
           IF ~ListQueryAccepted(status, page, limit)
           THEN [pc |-> "done", op |-> "list", kind |-> "ValidationError"]
           ELSE [pc |-> "counted", op |-> "list", status |-> status, page |-> page,
                 limit |-> limit, total |-> Cardinality(ListMatching(store, status))]]
    /\ UNCHANGED <<store, now, nextId, resp>>

\* get_pr_list, lines 31-37, and the handler's response: the items statement;
\* matching is the number of rows the filter keeps in the rows it read
ListItems(s) ==
    /\ sess[s].pc = "counted"
    /\ \E items \in ListOrderings(store, ListMatching(store, sess[s].status)) :
          sess' = [sess EXCEPT ![s] =
              [pc |-> "done", op |-> "list", kind |-> "ok", status |-> sess[s].status,
               page |-> sess[s].page, limit |-> sess[s].limit, total |-> sess[s].total,
               items |-> ListPage(items, sess[s].page, sess[s].limit),
               matching |-> Len(items)]]
    /\ UNCHANGED <<store, now, nextId, resp>>

(***************************************************************************)
(* SpecList: list requests in one session, next to create, delete and      *)
(* status update requests that commit between their statements.            *)
(***************************************************************************)
ListStatuses == {None, Some("active")}

ListPages == {0, 1, 2}

ListLimits == {1, 20}

NextList ==
    \/ \E body \in {BodyBase, BodyFull} : nextId <= MaxIds /\ Create(body)
    \/ \E id \in RequestIds : Delete(id)
    \/ \E id \in RequestIds, body \in StatusPatches : Update(id, body)
    \/ \E status \in ListStatuses, page \in ListPages, limit \in ListLimits :
          ListCount(1, status, page, limit)
    \/ ListItems(1)
    \/ TxClose(1)
    \/ Tick

SpecList == Init /\ [][NextList]_vars

(***************************************************************************)
(* C14: the total of a list response is the number of promotions matching   *)
(* the status filter in the store state from which its page of items was    *)
(* taken, whatever create, delete or status update commits meanwhile; with  *)
(* page = 1 and limit >= total the number of items equals total.            *)
(***************************************************************************)
C14_ListSnapshot ==
    \A s \in Sessions :
        (sess[s].pc = "done" /\ sess[s].op = "list" /\ sess[s].kind = "ok") =>
            /\ sess[s].total = sess[s].matching
            /\ (sess[s].page = 1 /\ sess[s].limit >= sess[s].total) =>
                   Len(sess[s].items) = sess[s].total

(***************************************************************************)
(* SpecColor: create and update requests whose tag_color is a colour in    *)
(* either case, a string int(.., 16) reads as a number though it is no     *)
(* run of six hex digits (a sign, a 0x prefix, whitespace, underscores),   *)
(* and strings of a wrong length, prefix or alphabet.                      *)
(***************************************************************************)
ColorInputs ==
    {<<"#", "0", "0", "f", "f", "7", "f">>,
     <<"#", "F", "F", "1", "B", "E", "8">>,
     <<"#", "+", "1", "2", "3", "4", "f">>,
     <<"#", "-", "1", "2", "3", "4", "f">>,
     <<"#", "0", "x", "1", "2", "a", "b">>,
     <<"#", " ", "1", "2", "3", "4", "f">>,
     <<"#", "1", "2", "3", "4", "f", " ">>,
     <<"#", "1", "_", "2", "_", "3", "a">>,
     <<"#", "1", "2", "3", "4", "5", "g">>,
     <<"#", "1", "2", "3", "4", "5">>,
     <<"#", "1", "2", "3", "4", "5", "6", "7">>,
     <<"F", "F", "1", "B", "E", "8", "0">>,
     <<"#", "1", "_", "_", "2", "3", "a">>,
     <<"#", "_", "1", "2", "3", "4", "5">>,
     <<>>}

ColorBodies == {BodyBase @@ [tag_color |-> c] : c \in ColorInputs}

ColorPatches == {[tag_color |-> Some(c)] : c \in ColorInputs}

NextColor ==
    \/ \E body \in ColorBodies : nextId <= MaxIds /\ Create(body)
    \/ \E id \in RequestIds, body \in ColorPatches : Update(id, body)

SpecColor == Init /\ [][NextColor]_vars

(***************************************************************************)
(* C15: create and update accept a tag_color if and only if it is '#'       *)
(* followed by exactly 6 characters each in 0-9, A-F or a-f, and store an   *)
(* accepted value upper-cased; every other string is rejected with a        *)
(* ValidationError and nothing is stored.                                   *)
(***************************************************************************)
ClaimHexChars ==
    {"0", "1", "2", "3", "4", "5", "6", "7", "8", "9",
     "A", "B", "C", "D", "E", "F", "a", "b", "c", "d", "e", "f"}

ClaimHexColor(v) ==
    /\ Len(v) = 7
    /\ v[1] = "#"
    /\ \A i \in 2..7 : v[i] \in ClaimHexChars

C15_HexColorRule ==
    [][/\ \A body \in ColorBodies :
             (resp'.op = "create" /\ Create(body)) =>
                 IF ClaimHexColor(body.tag_color)
                 THEN /\ resp'.kind = "Created"
                      /\ store'[resp'.id].tag_color = Upper(body.tag_color)
                 ELSE resp'.kind = "ValidationError" /\ store' = store
       /\ \A id \in RequestIds, body \in ColorPatches :
             (resp'.op = "update" /\ resp'.id = id /\ Update(id, body) /\ id \in DOMAIN store) =>
                 IF ClaimHexColor(body.tag_color[1])
                 THEN /\ resp'.kind = "ok"
                      /\ store'[id].tag_color = Upper(body.tag_color[1])
                 ELSE resp'.kind = "ValidationError" /\ store' = store]_vars

(***************************************************************************)
(* SpecRedirRace: redirect requests for promotions with a valid link_url   *)
(* in overlapping sessions, next to create and delete requests served in   *)
(* one step when no session holds the row lock.                            *)
(***************************************************************************)
RaceBody ==
    [title |-> <<"R">>, description |-> <<>>, image_url |-> <<>>,
     link_url |-> <<"h", "t", "t", "p", ":", "/", "/", "a">>,
     tag_text |-> <<>>, start_date |-> 0, end_date |-> 1]

NextRedirRace ==
    \/ nextId <= MaxIds /\ Create(RaceBody)
    \/ \E s \in Sessions, id \in DOMAIN store : CanCount /\ RedirLookup(s, id)
    \/ \E s \in Sessions : RedirValidate(s)
    \/ \E s \in Sessions : RedirTrackSelect(s)
    \/ \E s \in Sessions : TrackFlush(s)
    \/ \E s \in Sessions : RedirSignal(s)
    \/ \E s \in Sessions : TxCommit(s)
    \/ \E s \in Sessions : TxClose(s)
    \/ \E id \in DOMAIN store : ~Locked(id, Sessions) /\ Delete(id)

SpecRedirRace == Init /\ [][NextRedirRace]_vars

\* the redirect request of session s passed the lookup and the validation and
\* has not ended
PastValidation(s) ==
    /\ sess[s].pc \in {"validated", "dirty", "flushed", "untracked", "signalled"}
    /\ sess[s].op = "redirect"

(***************************************************************************)
(* C16 as claimed: the outcome of the redirect flow is decided by the       *)
(* lookup and the URL validation alone: a request that passed both ends in  *)
(* a 302, whether or not the click track succeeded.                         *)
(***************************************************************************)
C16_ValidatedEndsIn302 ==
    [][\A s \in Sessions :
          (PastValidation(s) /\ sess'[s].pc = "done") => sess'[s].kind = "Redirect302"]_vars

(***************************************************************************)
(* C16 as amended: once the lookup and the validation pass, the flow        *)
(* signals a 302 whether track_pr found the promotion or not, unless the    *)
(* flush of the track step raises: when a concurrent delete commits between *)
(* the lookup and the SELECT of the track step, the request goes on to the  *)
(* 302 with no click recorded on any promotion and no error; when the       *)
(* delete commits between that SELECT and the flush, the flush matches no   *)
(* row and the request ends in an error, with no 302 and no click.          *)
(***************************************************************************)
C16_RedirectOutcome ==
    [][\A s \in Sessions :
          (PastValidation(s) /\ sess'[s] # sess[s]) =>
              /\ sess'[s].pc = "done" =>
                    \/ sess[s].pc = "signalled" /\ sess'[s].kind = "Redirect302"
                    \/ /\ sess[s].pc = "dirty" /\ sess[s].id \notin DOMAIN store
                       /\ sess'[s].kind = "StaleDataError"
                       /\ store' = store
              /\ (sess[s].pc = "validated" /\ sess[s].id \notin DOMAIN store) =>
                    sess'[s].pc = "untracked" /\ store' = store
              /\ sess[s].pc = "untracked" =>
                    sess'[s].pc = "signalled" /\ store' = store
              /\ (sess[s].pc = "signalled" /\ ~sess[s].wrote) =>
                    sess'[s].pc = "done" /\ sess'[s].kind = "Redirect302" /\ store' = store]_vars

\* a redirect request ended in a 302 without a write, its promotion deleted,
\* next to a promotion whose counters are 0
C16_Witness ==
    \E s \in Sessions :
        /\ sess[s].pc = "done" /\ sess[s].op = "redirect" /\ sess[s].kind = "Redirect302"
        /\ ~sess[s].wrote
        /\ sess[s].log = <<"lookup", "validate", "track", "redirect">>
        /\ sess[s].id \notin DOMAIN store
        /\ \E o \in DOMAIN store : store[o].click_count = 0 /\ store[o].view_count = 0
=============================================================================
